---- MODULE Spec2Model ----
(***************************************************************************)
(* Model of the abort-signal library (src/src/index.ts): the AbortManager  *)
(* class with its six operations timeout, any, manageLifecycle, follow,    *)
(* fromEvent and never, together with the platform objects they act on:    *)
(* AbortController / AbortSignal (abort once, synchronous dispatch of the  *)
(* 'abort' event to the registered listeners), setTimeout, an              *)
(* EventTargetLike and a FinalizationRegistry.                             *)
(*                                                                         *)
(* Every action is one whole call of the caller (or one callback of the    *)
(* runtime): JavaScript runs it to completion, listeners included. The     *)
(* caller may put a listener of its own on a signal any() returned, which  *)
(* aborts one of the caller's controllers while the abort is dispatched.   *)
(***************************************************************************)
EXTENDS Integers, Sequences, FiniteSets

\* ------------------------------------------------------------------ bounds
MaxSignals == 3      \* controllers constructed in one run
MaxInputs == 2       \* length of the iterable given to any()
MaxBindings == 1     \* calls of manageLifecycle
MaxEvents == 2       \* events dispatched on the targets
MaxNeverCalls == 2   \* calls of never()
MaxSubscriptions == 1  \* listeners the caller adds to the signals any() returned

Signals == 1..MaxSignals
\* reasons the caller passes to controller.abort(reason)
UserReasons == {[value |-> "R1"], [value |-> "R2"]}
\* signal.reason of a signal that is not aborted
Undefined == [value |-> "undefined"]
\* #neverSignal before the first call of never()
NoSignal == 0
\* the event-capable targets: a DOM-like one that honours { once: true } and
\* the test's mockEventTarget, which keeps the listener registered
Targets == {"dom", "mock"}
EventNames == {"x", "y"}
\* the durations given to timeout(), in milliseconds
Durations == {0, 10, 1000}
\* the instants, in milliseconds, at which the caller acts while a timer is waiting
UserInstants == {10}

VARIABLES
    nsig,             \* number of controllers constructed so far (signals 1..nsig)
    origin,           \* origin[s]: which operation constructed signal s
    aborted,          \* aborted[s]: signal.aborted
    reason,           \* reason[s]: signal.reason
    listeners,        \* listeners[s]: the 'abort' listeners of s, in registration order
    controllers,      \* the signals whose controller the caller holds
    anyCalls,         \* the closures of the calls of any(): signalArray, controller, and
                      \* how many times onAbort and cleanup have run
    follows,          \* the closures of the calls of follow(): parentSignal, controller
    bindings,         \* the closures of the calls of manageLifecycle()
    timers,           \* the timers scheduled by timeout()
    now,              \* the clock, in milliseconds
    targetListeners,  \* targetListeners[t][n]: the listeners of event n on t, each with the
                      \* controller it aborts and its once option
    fromEvents,       \* the calls of fromEvent(): target, eventName, controller, and
                      \* how many times the listener was called
    nevents,          \* the number of events dispatched so far
    neverSignal,      \* AbortManager.#neverSignal
    neverReturned     \* the values returned by the calls of never(), in order

vars == <<nsig, origin, aborted, reason, listeners, controllers, anyCalls, follows,
          bindings, timers, now, targetListeners, fromEvents, nevents, neverSignal,
          neverReturned>>

\* ------------------------------------------------------------ helpers
Range(seq) == {seq[i] : i \in 1..Len(seq)}

RECURSIVE SeqsUpTo(_, _)
\* all sequences over S of length at most n
SeqsUpTo(S, n) ==
    IF n = 0 THEN {<<>>}
    ELSE LET shorter == SeqsUpTo(S, n - 1)
         IN shorter \cup {Append(q, x) : q \in {p \in shorter : Len(p) = n - 1}, x \in S}

\* the part of the state that listeners read and write while an abort is dispatched
Heap == [aborted |-> aborted, reason |-> reason, listeners |-> listeners,
         calls |-> [b \in 1..Len(bindings) |-> bindings[b].calls],
         runs |-> [c \in 1..Len(anyCalls) |-> [onAbort |-> anyCalls[c].onAbortRuns,
                                                cleanup |-> anyCalls[c].cleanupRuns]]]

\* ------------------------------------------- platform: EventTarget of a signal
\* mutant of SameCallback: the closures of separate calls are taken for one callback
SameCallback_KindOnly(l, m) == l.kind = m.kind

\* the callback of a listener is its closure: the kind of closure and the call that made it
SameCallback(l, m) == l.kind = m.kind /\ l.id = m.id

HasListener(ls, l) == \E i \in 1..Len(ls) : SameCallback(ls[i], l)

\* signal.addEventListener('abort', callback, { once }): a callback is registered once
AddEventListener(st, s, l) ==
    IF HasListener(st.listeners[s], l) THEN st
    ELSE [st EXCEPT !.listeners[s] = Append(@, l)]

\* signal.removeEventListener('abort', callback)
RemoveEventListener(st, s, l) ==
    [st EXCEPT !.listeners[s] = SelectSeq(@, LAMBDA m : ~SameCallback(m, l))]

\* the listener closures made by the library
OnAbortOfAny(c) == [kind |-> "any", id |-> c, once |-> FALSE]

\* mutant of OnAbortOfFollow: the listener is added without { once: true }
OnAbortOfFollow_NotOnce(f) == [kind |-> "follow", id |-> f, once |-> FALSE]

OnAbortOfFollow(f) == [kind |-> "follow", id |-> f, once |-> TRUE]
EventListenerOf(b) == [kind |-> "lifecycle", id |-> b, once |-> TRUE]
\* a listener of the caller on a signal: () => controller.abort(signal.reason), with
\* the controller of target
CallerListener(target) == [kind |-> "caller", id |-> target, once |-> FALSE]

RECURSIVE AbortSignal(_, _, _)
RECURSIVE FireAbort(_, _, _, _)
RECURSIVE InvokeListener(_, _, _)
RECURSIVE CleanupFrom(_, _, _, _)

\* cleanup of any(): remove onAbort from every signal of signalArray
CleanupFrom(st, c, signalArray, i) ==
    IF i > Len(signalArray) THEN st
    ELSE CleanupFrom(RemoveEventListener(st, signalArray[i], OnAbortOfAny(c)),
                     c, signalArray, i + 1)

Cleanup(st, c) ==
    CleanupFrom([st EXCEPT !.runs[c].cleanup = @ + 1], c, anyCalls[c].signalArray, 1)

\* mutant of AnyOnAbort: the reason is read from the first input, not from this
AnyOnAbort_FirstInput(st, c, this) ==
    Cleanup(AbortSignal([st EXCEPT !.runs[c].onAbort = @ + 1], anyCalls[c].out,
                        st.reason[anyCalls[c].signalArray[1]]), c)

\* mutant of AnyOnAbort: cleanup is not called
AnyOnAbort_NoCleanup(st, c, this) ==
    AbortSignal([st EXCEPT !.runs[c].onAbort = @ + 1], anyCalls[c].out, st.reason[this])

\* onAbort of any(), called with this = the input that aborted
AnyOnAbort(st, c, this) ==
    Cleanup(AbortSignal([st EXCEPT !.runs[c].onAbort = @ + 1], anyCalls[c].out,
                        st.reason[this]), c)

\* onAbort of follow()
FollowOnAbort(st, f) ==
    AbortSignal(st, follows[f].child, st.reason[follows[f].parent])

\* mutant of LifecycleEventListener: onAbort is called without the reason
LifecycleEventListener_NoReason(st, b) ==
    [st EXCEPT !.calls[b] = Append(@, Undefined)]

\* eventListener of manageLifecycle(): onAbort(signal.reason)
LifecycleEventListener(st, b) ==
    [st EXCEPT !.calls[b] = Append(@, st.reason[bindings[b].signal])]

\* the runtime calls listener l of signal s
InvokeListener(st, s, l) ==
    CASE l.kind = "any" -> AnyOnAbort(st, l.id, s)
      [] l.kind = "follow" -> FollowOnAbort(st, l.id)
      [] l.kind = "lifecycle" -> LifecycleEventListener(st, l.id)
      [] l.kind = "caller" -> AbortSignal(st, l.id, st.reason[s])

\* dispatch of the 'abort' event on s: the listeners registered when the dispatch
\* began, in order; one removed meanwhile is skipped; a once listener is removed
\* before it is called
FireAbort(st, s, snapshot, i) ==
    IF i > Len(snapshot) THEN st
    ELSE LET l == snapshot[i]
         IN IF ~HasListener(st.listeners[s], l)
            THEN FireAbort(st, s, snapshot, i + 1)
            ELSE LET st1 == IF l.once THEN RemoveEventListener(st, s, l) ELSE st
                 IN FireAbort(InvokeListener(st1, s, l), s, snapshot, i + 1)

\* mutant of AbortSignal: abort on an aborted signal replaces the reason
AbortSignal_Overwrite(st, s, r) ==
    IF st.aborted[s] THEN [st EXCEPT !.reason[s] = r]
    ELSE FireAbort([st EXCEPT !.aborted[s] = TRUE, !.reason[s] = r],
                   s, st.listeners[s], 1)

\* controller.abort(r) of the controller of s: a no-op on an aborted signal
AbortSignal(st, s, r) ==
    IF st.aborted[s] THEN st
    ELSE FireAbort([st EXCEPT !.aborted[s] = TRUE, !.reason[s] = r],
                   s, st.listeners[s], 1)

\* the heap written back to the variables
Commit(st) ==
    /\ aborted' = st.aborted
    /\ reason' = st.reason
    /\ listeners' = st.listeners

\* the callbacks that ran during the step, written back to the closures
CommitCalls(st) ==
    /\ bindings' = [b \in 1..Len(bindings) |-> [bindings[b] EXCEPT !.calls = st.calls[b]]]
    /\ anyCalls' = [c \in 1..Len(anyCalls) |->
                       [anyCalls[c] EXCEPT !.onAbortRuns = st.runs[c].onAbort,
                                           !.cleanupRuns = st.runs[c].cleanup]]

\* new AbortController()
NewSignal == nsig + 1

Construct(kind) ==
    /\ nsig < MaxSignals
    /\ nsig' = NewSignal
    /\ origin' = [origin EXCEPT ![NewSignal] = kind]

\* --------------------------------------------------------------- Init
Init ==
    /\ nsig = 0
    /\ origin = [s \in Signals |-> "none"]
    /\ aborted = [s \in Signals |-> FALSE]
    /\ reason = [s \in Signals |-> Undefined]
    /\ listeners = [s \in Signals |-> <<>>]
    /\ controllers = {}
    /\ anyCalls = <<>>
    /\ follows = <<>>
    /\ bindings = <<>>
    /\ timers = <<>>
    /\ now = 0
    /\ targetListeners = [t \in Targets |-> [n \in EventNames |-> <<>>]]
    /\ fromEvents = <<>>
    /\ nevents = 0
    /\ neverSignal = NoSignal
    /\ neverReturned = <<>>

\* ------------------------------------------------------ the caller's controllers
\* const controller = new AbortController() by the caller
NewController ==
    /\ Construct("user")
    /\ controllers' = controllers \cup {NewSignal}
    /\ UNCHANGED <<aborted, reason, listeners, anyCalls, follows, bindings, timers,
                   now, targetListeners, fromEvents, nevents, neverSignal, neverReturned>>

\* controller.abort(r) by the caller, on a controller it holds
AbortController(s, r) ==
    /\ s \in controllers
    /\ LET st == AbortSignal(Heap, s, r)
       IN /\ Commit(st)
          /\ CommitCalls(st)
    /\ UNCHANGED <<nsig, origin, controllers, follows, timers, now,
                   targetListeners, fromEvents, nevents, neverSignal, neverReturned>>

\* the listeners the caller has added
Subscriptions ==
    {p \in Signals \X (1..(2 * MaxSignals)) :
        p[2] <= Len(listeners[p[1]]) /\ listeners[p[1]][p[2]].kind = "caller"}

\* signal.addEventListener('abort', () => controller.abort(signal.reason)) by the
\* caller, on a signal any() returned that is not aborted, with a controller the
\* caller constructed
Subscribe(signal, target) ==
    /\ signal \in 1..nsig
    /\ origin[signal] = "any"
    /\ ~aborted[signal]
    /\ target \in controllers
    /\ origin[target] = "user"
    /\ Cardinality(Subscriptions) < MaxSubscriptions
    /\ Commit(AddEventListener(Heap, signal, CallerListener(target)))
    /\ UNCHANGED <<nsig, origin, controllers, anyCalls, follows, bindings, timers, now,
                   targetListeners, fromEvents, nevents, neverSignal, neverReturned>>

\* ------------------------------------------------------------- timeout
RECURSIVE NumberToString(_)
\* `${milliseconds}` of a non-negative integer: its decimal digits
NumberToString(n) ==
    LET digit == <<"0", "1", "2", "3", "4", "5", "6", "7", "8", "9">>[(n % 10) + 1]
    IN IF n < 10 THEN <<digit>> ELSE Append(NumberToString(n \div 10), digit)

\* `Signal timed out after ${milliseconds}ms`
TimeoutMessage(milliseconds) ==
    <<"Signal timed out after ">> \o NumberToString(milliseconds) \o <<"ms">>

\* new TimeoutError(message)
TimeoutError(message) == [name |-> "TimeoutError", message |-> message]

\* Abort.timeout(milliseconds): the controller and the timer; the signal is returned
Timeout(milliseconds) ==
    /\ Construct("timeout")
    /\ timers' = Append(timers, [signal |-> NewSignal, ms |-> milliseconds,
                                 set |-> now, fired |-> FALSE])
    /\ UNCHANGED <<aborted, reason, listeners, controllers, anyCalls, follows, bindings,
                   now, targetListeners, fromEvents, nevents, neverSignal, neverReturned>>

\* the instant at which the delay of timer t has elapsed
Deadline(t) == timers[t].set + timers[t].ms

\* mutant of TimerDue: the delay is not given to setTimeout
TimerDue_NoDelay(t) == ~timers[t].fired

\* a timer that has not fired is due once its delay has elapsed
TimerDue(t) == ~timers[t].fired /\ now >= Deadline(t)

\* the callback given to setTimeout runs
TimerFire(t) ==
    /\ t \in 1..Len(timers)
    /\ TimerDue(t)
    /\ LET st == AbortSignal(Heap, timers[t].signal,
                             TimeoutError(TimeoutMessage(timers[t].ms)))
       IN /\ Commit(st)
          /\ CommitCalls(st)
    /\ timers' = [timers EXCEPT ![t].fired = TRUE]
    /\ UNCHANGED <<nsig, origin, controllers, follows, now, targetListeners,
                   fromEvents, nevents, neverSignal, neverReturned>>

\* the instants that lie ahead: the deadlines of the waiting timers and the
\* instants at which the caller acts
InstantsAhead ==
    {Deadline(t) : t \in {u \in 1..Len(timers) : ~timers[u].fired /\ now < Deadline(u)}}
        \cup {i \in UserInstants : now < i}

\* time passes while a timer is waiting; the clock is read only through the timers
\* and the caller, so it is advanced from one instant that lies ahead to the next
Tick ==
    /\ \E t \in 1..Len(timers) : ~timers[t].fired /\ now < Deadline(t)
    /\ \E i \in InstantsAhead :
          /\ \A j \in InstantsAhead : i <= j
          /\ now' = i
    /\ UNCHANGED <<nsig, origin, aborted, reason, listeners, controllers, anyCalls,
                   follows, bindings, timers, targetListeners, fromEvents, nevents, neverSignal,
                   neverReturned>>

\* ----------------------------------------------------------------- any
RECURSIVE AnyLoop_NoShortCircuit(_, _, _, _)
\* mutant of AnyLoop: no check of signal.aborted, the listener is attached to every input
AnyLoop_NoShortCircuit(st, c, call, i) ==
    IF i > Len(call.signalArray) THEN [st |-> st, short |-> FALSE]
    ELSE AnyLoop_NoShortCircuit(AddEventListener(st, call.signalArray[i], OnAbortOfAny(c)),
                                c, call, i + 1)

RECURSIVE AnyLoop_Inverted(_, _, _, _)
\* mutant of AnyLoop: the test of signal.aborted is inverted
AnyLoop_Inverted(st, c, call, i) ==
    IF i > Len(call.signalArray) THEN [st |-> st, short |-> FALSE]
    ELSE LET signal == call.signalArray[i]
         IN IF ~st.aborted[signal]
            THEN [st |-> AbortSignal(st, call.out, st.reason[signal]), short |-> TRUE]
            ELSE AnyLoop_Inverted(AddEventListener(st, signal, OnAbortOfAny(c)),
                                  c, call, i + 1)

RECURSIVE AnyLoop_FirstOnly(_, _, _, _)
\* mutant of AnyLoop: the listener is attached to the first input only
AnyLoop_FirstOnly(st, c, call, i) ==
    IF i > Len(call.signalArray) THEN [st |-> st, short |-> FALSE]
    ELSE LET signal == call.signalArray[i]
         IN IF st.aborted[signal]
            THEN [st |-> AbortSignal(st, call.out, st.reason[signal]), short |-> TRUE]
            ELSE AnyLoop_FirstOnly(IF i = 1
                                   THEN AddEventListener(st, signal, OnAbortOfAny(c))
                                   ELSE st, c, call, i + 1)

RECURSIVE AnyLoop_Reverse(_, _, _, _)
\* mutant of AnyLoop: signalArray is scanned from its end
AnyLoop_Reverse(st, c, call, i) ==
    IF i > Len(call.signalArray) THEN [st |-> st, short |-> FALSE]
    ELSE LET signal == call.signalArray[Len(call.signalArray) + 1 - i]
         IN IF st.aborted[signal]
            THEN [st |-> AbortSignal(st, call.out, st.reason[signal]), short |-> TRUE]
            ELSE AnyLoop_Reverse(AddEventListener(st, signal, OnAbortOfAny(c)),
                                 c, call, i + 1)

RECURSIVE AnyLoop(_, _, _, _)
\* the scan of signalArray by call c, from place i: the heap when any() returns and
\* whether it returned from inside the loop
AnyLoop(st, c, call, i) ==
    IF i > Len(call.signalArray) THEN [st |-> st, short |-> FALSE]
    ELSE LET signal == call.signalArray[i]
         IN IF st.aborted[signal]
            THEN [st |-> AbortSignal(st, call.out, st.reason[signal]), short |-> TRUE]
            ELSE AnyLoop(AddEventListener(st, signal, OnAbortOfAny(c)), c, call, i + 1)

\* Abort.any(signals)
Any(signals) ==
    /\ Construct("any")
    /\ LET c == Len(anyCalls) + 1
           call == [signalArray |-> signals, out |-> NewSignal]
           ret == AnyLoop(Heap, c, call, 1)
       IN /\ Commit(ret.st)
          /\ anyCalls' = Append(anyCalls, [signalArray |-> signals, out |-> NewSignal,
                                           short |-> ret.short,
                                           onAbortRuns |-> 0, cleanupRuns |-> 0])
    /\ UNCHANGED <<controllers, follows, bindings, timers, now, targetListeners, fromEvents, nevents,
                   neverSignal, neverReturned>>

\* ------------------------------------------------------ manageLifecycle
\* mutant of ManageLifecycleBody: no return after the call of onAbort on an aborted
\* signal
ManageLifecycleBody_NoReturn(signal) ==
    [st |-> AddEventListener(Heap, signal, EventListenerOf(Len(bindings) + 1)),
     binding |-> [signal |-> signal,
                  calls |-> IF aborted[signal] THEN <<reason[signal]>> ELSE <<>>,
                  registered |-> TRUE, registryAlive |-> TRUE,
                  targetCollected |-> FALSE, cleanupRan |-> FALSE]]

\* Abort.manageLifecycle({ target, signal, onAbort }); calls is the log of the
\* invocations of onAbort, registered says that the listener and the registry exist
ManageLifecycleBody(signal) ==
    IF aborted[signal]
    THEN [st |-> Heap,
          binding |-> [signal |-> signal, calls |-> <<reason[signal]>>,
                       registered |-> FALSE, registryAlive |-> FALSE,
                       targetCollected |-> FALSE, cleanupRan |-> FALSE]]
    ELSE [st |-> AddEventListener(Heap, signal, EventListenerOf(Len(bindings) + 1)),
          binding |-> [signal |-> signal, calls |-> <<>>,
                       registered |-> TRUE, registryAlive |-> TRUE,
                       targetCollected |-> FALSE, cleanupRan |-> FALSE]]

ManageLifecycle(signal) ==
    /\ Len(bindings) < MaxBindings
    /\ signal \in 1..nsig
    /\ LET ret == ManageLifecycleBody(signal)
       IN /\ Commit(ret.st)
          /\ bindings' = Append(bindings, ret.binding)
    /\ UNCHANGED <<nsig, origin, controllers, anyCalls, follows, timers, now,
                   targetListeners, fromEvents, nevents, neverSignal, neverReturned>>

\* the target of binding b becomes unreachable and is garbage-collected
CollectTarget(b) ==
    /\ b \in 1..Len(bindings)
    /\ ~bindings[b].targetCollected
    /\ bindings' = [bindings EXCEPT ![b].targetCollected = TRUE]
    /\ UNCHANGED <<nsig, origin, aborted, reason, listeners, controllers, anyCalls,
                   follows, timers, now, targetListeners, fromEvents, nevents, neverSignal,
                   neverReturned>>

\* the FinalizationRegistry of binding b, a local of manageLifecycle that nothing
\* references after the call returned, is itself garbage-collected: its cleanup
\* callback will not be called (once the callback has run, nothing depends on the
\* registry any more)
CollectRegistry(b) ==
    /\ b \in 1..Len(bindings)
    /\ bindings[b].registryAlive
    /\ ~bindings[b].cleanupRan
    /\ bindings' = [bindings EXCEPT ![b].registryAlive = FALSE]
    /\ UNCHANGED <<nsig, origin, aborted, reason, listeners, controllers, anyCalls,
                   follows, timers, now, targetListeners, fromEvents, nevents, neverSignal,
                   neverReturned>>

\* the cleanup callback of the registry: signal.removeEventListener('abort', eventListener)
FinalizationCallback(st, b) ==
    RemoveEventListener(st, bindings[b].signal, EventListenerOf(b))

\* the registry of binding b calls its cleanup callback with the held value cleanupId
Finalize(b) ==
    /\ b \in 1..Len(bindings)
    /\ bindings[b].registered
    /\ bindings[b].registryAlive
    /\ bindings[b].targetCollected
    /\ ~bindings[b].cleanupRan
    /\ Commit(FinalizationCallback(Heap, b))
    /\ bindings' = [bindings EXCEPT ![b].cleanupRan = TRUE]
    /\ UNCHANGED <<nsig, origin, controllers, anyCalls, follows, timers, now,
                   targetListeners, fromEvents, nevents, neverSignal, neverReturned>>

\* -------------------------------------------------------------- follow
\* mutant of FollowBody: no check of parentSignal.aborted, the listener is always attached
FollowBody_NoPreCheck(st, f, parentSignal, child) ==
    AddEventListener(st, parentSignal, OnAbortOfFollow(f))

\* mutant of FollowBody: the test of parentSignal.aborted is inverted
FollowBody_Inverted(st, f, parentSignal, child) ==
    IF ~st.aborted[parentSignal]
    THEN AbortSignal(st, child, st.reason[parentSignal])
    ELSE AddEventListener(st, parentSignal, OnAbortOfFollow(f))

\* Abort.follow(parentSignal): the heap when it returns; f is this call, child its controller
FollowBody(st, f, parentSignal, child) ==
    IF st.aborted[parentSignal]
    THEN AbortSignal(st, child, st.reason[parentSignal])
    ELSE AddEventListener(st, parentSignal, OnAbortOfFollow(f))

Follow(parentSignal) ==
    /\ parentSignal \in 1..nsig
    /\ Construct("follow")
    /\ Commit(FollowBody(Heap, Len(follows) + 1, parentSignal, NewSignal))
    /\ follows' = Append(follows, [parent |-> parentSignal, child |-> NewSignal,
                                   pre |-> aborted[parentSignal]])
    /\ controllers' = controllers \cup {NewSignal}
    /\ UNCHANGED <<anyCalls, bindings, timers, now, targetListeners, fromEvents, nevents,
                   neverSignal, neverReturned>>

\* ----------------------------------------------------------- fromEvent
\* whether target t removes a listener registered with { once: true } when it fires
HonoursOnce(t) == t = "dom"

\* new Event(eventName): every dispatch makes a new event object
NewEvent(eventName) == [type |-> eventName, id |-> nevents + 1]

\* mutant of TargetAddEventListener: the listener is added without { once: true }
TargetAddEventListener_NotOnce(tl, target, eventName, signal) ==
    [tl EXCEPT ![target][eventName] = Append(@, [signal |-> signal, once |-> FALSE])]

\* target.addEventListener(eventName, (event) => controller.abort(event), { once: true })
TargetAddEventListener(tl, target, eventName, signal) ==
    [tl EXCEPT ![target][eventName] = Append(@, [signal |-> signal, once |-> TRUE])]

\* Abort.fromEvent(target, eventName)
FromEvent(target, eventName) ==
    /\ Construct("event")
    /\ targetListeners' = TargetAddEventListener(targetListeners, target, eventName,
                                                 NewSignal)
    /\ fromEvents' = Append(fromEvents, [target |-> target, eventName |-> eventName,
                                         signal |-> NewSignal, delivered |-> 0])
    /\ UNCHANGED <<aborted, reason, listeners, controllers, anyCalls, follows, bindings,
                   timers, now, nevents, neverSignal, neverReturned>>

\* mutant of FromEventListener: the event is not passed to controller.abort
FromEventListener_NoReason(st, signal, event) == AbortSignal(st, signal, Undefined)

\* the listener of fromEvent(): (event) => controller.abort(event)
FromEventListener(st, signal, event) == AbortSignal(st, signal, event)

RECURSIVE DeliverEvent(_, _, _, _)
\* the target calls every listener of the event with the event object
DeliverEvent(st, snapshot, event, i) ==
    IF i > Len(snapshot) THEN st
    ELSE DeliverEvent(FromEventListener(st, snapshot[i].signal, event),
                      snapshot, event, i + 1)

\* target.dispatchEvent(new Event(eventName)), on a target fromEvent() was given
Dispatch(target, eventName) ==
    /\ nevents < MaxEvents
    /\ \E e \in 1..Len(fromEvents) : fromEvents[e].target = target
    /\ nevents' = nevents + 1
    /\ LET snapshot == targetListeners[target][eventName]
           st == DeliverEvent(Heap, snapshot, NewEvent(eventName), 1)
       IN /\ Commit(st)
          /\ CommitCalls(st)
          /\ fromEvents' = [e \in 1..Len(fromEvents) |->
                               IF \E i \in 1..Len(snapshot) :
                                     snapshot[i].signal = fromEvents[e].signal
                               THEN [fromEvents[e] EXCEPT !.delivered = @ + 1]
                               ELSE fromEvents[e]]
    /\ targetListeners' =
          IF HonoursOnce(target)
          THEN [targetListeners EXCEPT
                   ![target][eventName] = SelectSeq(@, LAMBDA l : ~l.once)]
          ELSE targetListeners
    /\ UNCHANGED <<nsig, origin, controllers, follows, timers, now,
                   neverSignal, neverReturned>>

\* --------------------------------------------------------------- never
\* mutant of NeverConstructs: #neverSignal is not consulted
NeverConstructs_Always == TRUE

\* Abort.never(): the controller is constructed when #neverSignal is not set
NeverConstructs == neverSignal = NoSignal

Never ==
    /\ Len(neverReturned) < MaxNeverCalls
    /\ IF NeverConstructs
       THEN /\ Construct("never")
            /\ neverSignal' = NewSignal
       ELSE UNCHANGED <<nsig, origin, neverSignal>>
    /\ neverReturned' = Append(neverReturned, neverSignal')
    /\ UNCHANGED <<aborted, reason, listeners, controllers, anyCalls, follows, bindings,
                   timers, now, targetListeners, fromEvents, nevents>>

\* ---------------------------------------------------------------- Next
Next ==
    \/ NewController
    \/ \E s \in Signals, r \in UserReasons : AbortController(s, r)
    \/ \E s, t \in Signals : Subscribe(s, t)
    \/ \E d \in Durations : Timeout(d)
    \/ \E t \in 1..MaxSignals : TimerFire(t)
    \/ Tick
    \/ \E signals \in SeqsUpTo(1..nsig, MaxInputs) : Any(signals)
    \/ \E s \in Signals : ManageLifecycle(s)
    \/ \E b \in 1..MaxBindings : CollectTarget(b)
    \/ \E b \in 1..MaxBindings : CollectRegistry(b)
    \/ \E b \in 1..MaxBindings : Finalize(b)
    \/ \E p \in Signals : Follow(p)
    \/ \E t \in Targets, n \in EventNames : FromEvent(t, n)
    \/ \E t \in Targets, n \in EventNames : Dispatch(t, n)
    \/ Never

Spec == Init /\ [][Next]_vars

\* the runtime runs what it has scheduled: time passes, a due timer fires, and a
\* registry that is alive calls its cleanup callback for a collected target
FairSpec ==
    /\ Spec
    /\ WF_vars(Tick)
    /\ \A t \in 1..MaxSignals : WF_vars(TimerFire(t))
    /\ \A b \in 1..MaxBindings : WF_vars(Finalize(b))

\* ======================================================================
\* Properties
\* ======================================================================
\* the inputs of a call of any()
InputsOf(call) == Range(call.signalArray)

\* C1: for a call of any() on a non-empty sequence of signals none of which is aborted,
\* the output is not aborted when the call returns; in the step in which the first
\* input aborts, with reason R, the output becomes aborted with reason R; and once
\* the output is aborted its reason never changes, whatever aborts later.
C1_AnyFirstAbortWins ==
    [][\A c \in 1..Len(anyCalls') :
          LET call == anyCalls'[c]
              ins == InputsOf(call)
              noneAborted == ins # {} /\ \A i \in ins : ~aborted[i]
          IN /\ (c > Len(anyCalls) /\ noneAborted) => ~aborted'[call.out]
             /\ (c <= Len(anyCalls) /\ noneAborted /\ \E i \in ins : aborted'[i])
                   => /\ aborted'[call.out]
                      /\ \A i \in ins : aborted'[i] => reason'[call.out] = reason'[i]
             /\ (c <= Len(anyCalls) /\ aborted[call.out])
                   => aborted'[call.out] /\ reason'[call.out] = reason[call.out]
      ]_vars

\* C1 witness: a call that attached its listeners, whose output carries the reason of
\* one aborted input while another input is aborted with a different reason
C1_Witness ==
    \E c \in 1..Len(anyCalls) :
        /\ ~anyCalls[c].short
        /\ aborted[anyCalls[c].out]
        /\ \E i, j \in InputsOf(anyCalls[c]) :
              /\ aborted[i] /\ aborted[j]
              /\ reason[i] # reason[j]
              /\ reason[anyCalls[c].out] = reason[i]

\* C2: when exactly one input of the sequence is already aborted, with reason R, at
\* whatever place, the signal any() returns is aborted with reason R at return.
C2_AnyPreAborted ==
    [][\A c \in (Len(anyCalls) + 1)..Len(anyCalls') :
          LET call == anyCalls'[c]
              sa == call.signalArray
          IN \A k \in 1..Len(sa) :
                (aborted[sa[k]] /\ \A j \in 1..Len(sa) : j # k => ~aborted[sa[j]])
                   => aborted'[call.out] /\ reason'[call.out] = reason[sa[k]]
      ]_vars

\* C2 witness: a call that returned from inside the loop with the aborted signal in
\* second place, behind a signal that is not aborted
C2_Witness ==
    \E c \in 1..Len(anyCalls) :
        LET sa == anyCalls[c].signalArray
        IN /\ anyCalls[c].short
           /\ Len(sa) = 2
           /\ ~aborted[sa[1]]
           /\ aborted[sa[2]]
           /\ aborted[anyCalls[c].out]
           /\ reason[anyCalls[c].out] = reason[sa[2]]

\* C3: the output of any() is aborted only if one of its inputs is aborted, and then
\* with the reason of an aborted input; the output of any([]) is never aborted.
C3_AnyNoSooner ==
    \A c \in 1..Len(anyCalls) :
        aborted[anyCalls[c].out]
           => \E i \in InputsOf(anyCalls[c]) :
                 aborted[i] /\ reason[anyCalls[c].out] = reason[i]

\* C3 witness: the output of any([]) beside a call whose output an input aborted
C3_Witness ==
    /\ \E c \in 1..Len(anyCalls) :
          anyCalls[c].signalArray = <<>> /\ ~aborted[anyCalls[c].out]
    /\ \E c \in 1..Len(anyCalls) : aborted[anyCalls[c].out]

\* what follow() does when it returns: the child is aborted with the reason of a
\* parent that is already aborted, and is not aborted otherwise
FollowAtReturn(f) ==
    LET parent == follows'[f].parent
        child == follows'[f].child
    IN IF aborted[parent]
       THEN aborted'[child] /\ reason'[child] = reason[parent]
       ELSE ~aborted'[child]

\* C4 as stated: the child mirrors the parent: aborted with R at return when the
\* parent is already aborted with R; otherwise not aborted at return, aborted with the
\* parent's reason in the step in which the parent aborts, and not aborted in any
\* state before the parent aborts.
C4_FollowMirrorsOriginal ==
    [][\A f \in 1..Len(follows') :
          IF f > Len(follows) THEN FollowAtReturn(f)
          ELSE LET parent == follows[f].parent
                   child == follows[f].child
               IN /\ (~aborted[parent] /\ aborted'[parent])
                        => aborted'[child] /\ reason'[child] = reason'[parent]
                  /\ ~aborted'[parent] => ~aborted'[child]
      ]_vars

\* C4 amended: the same, except that the caller may abort the returned controller
\* itself: in the step in which the parent aborts, a child that is not yet aborted
\* becomes aborted with the parent's reason, and a child becomes aborted only in
\* the step in which its parent aborts or by the caller's abort(X) on it.
C4_FollowMirrors ==
    [][\A f \in 1..Len(follows') :
          IF f > Len(follows) THEN FollowAtReturn(f)
          ELSE LET parent == follows[f].parent
                   child == follows[f].child
               IN /\ (~aborted[parent] /\ aborted'[parent] /\ ~aborted[child])
                        => aborted'[child] /\ reason'[child] = reason'[parent]
                  /\ (~aborted[child] /\ aborted'[child])
                        => \/ /\ ~aborted[parent] /\ aborted'[parent]
                              /\ reason'[child] = reason'[parent]
                           \/ \E r \in UserReasons :
                                 AbortController(child, r) /\ reason'[child] = r
      ]_vars

\* C4 witness: the child of a timeout signal, not aborted when follow() returned,
\* aborted with the TimeoutError of its parent
C4_Witness ==
    \E f \in 1..Len(follows) :
        /\ ~follows[f].pre
        /\ origin[follows[f].parent] = "timeout"
        /\ aborted[follows[f].parent]
        /\ aborted[follows[f].child]
        /\ reason[follows[f].child] = reason[follows[f].parent]

\* a listener that the caller put on a signal runs in this step, and aborts a
\* controller of the caller (and with it whatever is subscribed to that one)
CallerAborts ==
    \E s \in Signals :
        /\ ~aborted[s] /\ aborted'[s]
        /\ \E i \in 1..Len(listeners[s]) : listeners[s][i].kind = "caller"

\* C5: the link made by follow() goes from the parent to the child only: while the
\* parent is not aborted, abort(X) by the caller on the returned controller makes
\* the child aborted with X, and no operation on the child (abort, or giving its
\* signal to any, follow or manageLifecycle) changes the parent's aborted flag or
\* reason, unless a listener of the caller itself runs in that step and aborts
\* another controller. A child that is aborted while its parent is not carries a
\* reason the caller gave.
C5_FollowOneWay ==
    /\ [](\A f \in 1..Len(follows) :
            (aborted[follows[f].child] /\ ~aborted[follows[f].parent])
               => reason[follows[f].child] \in UserReasons)
    /\ [][\A f \in 1..Len(follows) :
            LET parent == follows[f].parent
                child == follows[f].child
                parentUnchanged == \/ /\ aborted'[parent] = aborted[parent]
                                      /\ reason'[parent] = reason[parent]
                                   \/ CallerAborts
            IN /\ \A r \in UserReasons :
                     AbortController(child, r)
                        => /\ parentUnchanged
                           /\ (~aborted[parent] /\ ~aborted[child])
                                 => aborted'[child] /\ reason'[child] = r
               /\ (\E signals \in SeqsUpTo(1..nsig, MaxInputs) :
                      child \in Range(signals) /\ Any(signals)) => parentUnchanged
               /\ Follow(child) => parentUnchanged
               /\ ManageLifecycle(child) => parentUnchanged
        ]_vars

\* C5 witness: a child aborted by the caller while its parent is not aborted
C5_Witness ==
    \E f \in 1..Len(follows) :
        /\ aborted[follows[f].child]
        /\ ~aborted[follows[f].parent]
        /\ reason[follows[f].child] \in UserReasons

\* what manageLifecycle() does before it returns: onAbort is called with the reason
\* of a signal that is already aborted, and is not called otherwise
LifecycleAtReturn(b) ==
    LET signal == bindings'[b].signal
    IN IF aborted[signal]
       THEN bindings'[b].calls = <<reason[signal]>>
       ELSE bindings'[b].calls = <<>>

\* C6 as stated: onAbort is called with the reason before the call returns when the
\* signal is already aborted; otherwise it is not called during the call and is
\* called exactly once, with the signal's reason, in the step in which the signal
\* aborts.
C6_LifecycleOnceOriginal ==
    [][\A b \in 1..Len(bindings') :
          IF b > Len(bindings) THEN LifecycleAtReturn(b)
          ELSE LET signal == bindings[b].signal
               IN IF ~aborted[signal] /\ aborted'[signal]
                  THEN bindings'[b].calls = <<reason'[signal]>>
                  ELSE bindings'[b].calls = bindings[b].calls
      ]_vars

\* C6 amended: as stated, except that onAbort is not called at all when the
\* registry's cleanup for the collected target has removed the listener before the
\* signal aborts; in no case is onAbort called more than once.
C6_LifecycleOnce ==
    [][\A b \in 1..Len(bindings') :
          IF b > Len(bindings) THEN LifecycleAtReturn(b)
          ELSE LET signal == bindings[b].signal
               IN IF ~aborted[signal] /\ aborted'[signal] /\ ~bindings[b].cleanupRan
                  THEN bindings'[b].calls = <<reason'[signal]>>
                  ELSE bindings'[b].calls = bindings[b].calls
      ]_vars

\* C6 witness: a binding made on a signal that was not aborted, whose onAbort has
\* been called once with the reason of the signal
C6_Witness ==
    \E b \in 1..Len(bindings) :
        /\ bindings[b].registered
        /\ aborted[bindings[b].signal]
        /\ bindings[b].calls = <<reason[bindings[b].signal]>>

\* C7: for a binding made on a signal that is not aborted, when the target is
\* garbage-collected before the signal aborts, the cleanup of the registry
\* eventually runs and removes the listener of the binding from the signal, and an
\* abort of the signal after that does not call onAbort.
C7_LifecycleCollected ==
    /\ \A b \in 1..MaxBindings :
          (/\ b <= Len(bindings)
           /\ bindings[b].registered
           /\ bindings[b].targetCollected
           /\ ~aborted[bindings[b].signal])
             ~> (/\ b <= Len(bindings)
                 /\ bindings[b].cleanupRan
                 /\ ~HasListener(listeners[bindings[b].signal], EventListenerOf(b)))
    /\ [][\A b \in 1..Len(bindings) :
            bindings[b].cleanupRan => bindings'[b].calls = bindings[b].calls]_vars

\* the value of a decimal digit
DigitValue(ch) ==
    CASE ch = "0" -> 0 [] ch = "1" -> 1 [] ch = "2" -> 2 [] ch = "3" -> 3
      [] ch = "4" -> 4 [] ch = "5" -> 5 [] ch = "6" -> 6 [] ch = "7" -> 7
      [] ch = "8" -> 8 [] ch = "9" -> 9

RECURSIVE DigitsValue(_)
\* the number a sequence of decimal digits writes
DigitsValue(ds) ==
    IF ds = <<>> THEN 0
    ELSE 10 * DigitsValue(SubSeq(ds, 1, Len(ds) - 1)) + DigitValue(ds[Len(ds)])

\* m reads 'Signal timed out after {d}ms', d written in decimal
IsTimeoutMessage(m, d) ==
    /\ Len(m) >= 3
    /\ m[1] = "Signal timed out after "
    /\ m[Len(m)] = "ms"
    /\ LET ds == SubSeq(m, 2, Len(m) - 1)
       IN /\ \A i \in 1..Len(ds) :
                ds[i] \in {"0", "1", "2", "3", "4", "5", "6", "7", "8", "9"}
          /\ Len(ds) > 1 => ds[1] # "0"
          /\ DigitsValue(ds) = d

\* C8: the signal of timeout(d) is not aborted when the call returns, d = 0
\* included, nor in any state before d milliseconds have elapsed since the call;
\* once its timer has fired it is aborted with a TimeoutError whose message is
\* 'Signal timed out after {d}ms'.
C8_TimeoutAfterDelay ==
    \A t \in 1..Len(timers) :
        LET s == timers[t].signal
        IN /\ now < timers[t].set + timers[t].ms => ~aborted[s]
           /\ ~timers[t].fired => ~aborted[s]
           /\ timers[t].fired
                 => /\ aborted[s]
                    /\ DOMAIN reason[s] = {"name", "message"}
                    /\ reason[s].name = "TimeoutError"
                    /\ IsTimeoutMessage(reason[s].message, timers[t].ms)

\* C8 witness: a timer of 10 ms has fired, its delay elapsed, while the signal of a
\* timeout(0) whose timer has not fired yet is not aborted
C8_Witness ==
    /\ \E t \in 1..Len(timers) :
          /\ timers[t].ms = 10
          /\ timers[t].fired
          /\ now >= timers[t].set + 10
          /\ aborted[timers[t].signal]
    /\ \E t \in 1..Len(timers) :
          timers[t].ms = 0 /\ ~timers[t].fired /\ ~aborted[timers[t].signal]

\* C9: the signal of fromEvent(target, name) is not aborted at return; the first
\* dispatch of an event named name on the target aborts it with the dispatched
\* event object as reason; a later dispatch changes neither aborted nor reason; a
\* dispatch of another name, or on another target, changes nothing either, and
\* nothing but a dispatch of name on the target aborts the signal.
C9_FromEventFirstDispatch ==
    [][\A e \in 1..Len(fromEvents') :
          LET ev == fromEvents'[e]
              s == ev.signal
          IN IF e > Len(fromEvents) THEN ~aborted'[s]
             ELSE /\ \A t \in Targets, n \in EventNames :
                        Dispatch(t, n)
                           => IF t = ev.target /\ n = ev.eventName /\ ~aborted[s]
                              THEN /\ aborted'[s]
                                   /\ reason'[s] = [type |-> n, id |-> nevents']
                              ELSE /\ aborted'[s] = aborted[s]
                                   /\ reason'[s] = reason[s]
                  /\ (~aborted[s] /\ aborted'[s]) => Dispatch(ev.target, ev.eventName)
      ]_vars

\* C9 witness: the listener was called for two dispatches and the reason is the
\* event object of the first
C9_Witness ==
    \E e \in 1..Len(fromEvents) :
        /\ fromEvents[e].delivered = 2
        /\ nevents = 2
        /\ aborted[fromEvents[e].signal]
        /\ reason[fromEvents[e].signal] = [type |-> fromEvents[e].eventName, id |-> 1]

\* C10: every call of never() returns the same signal, its controller is
\* constructed once, and that signal is not aborted in any state, also when it was
\* given to any, follow or manageLifecycle.
C10_NeverSingleton ==
    /\ \A i \in 1..Len(neverReturned) :
          /\ neverReturned[i] = neverReturned[1]
          /\ neverReturned[i] = neverSignal
          /\ ~aborted[neverReturned[i]]
    /\ Cardinality({s \in 1..nsig : origin[s] = "never"}) <= 1

\* C10 witness: never() was called twice; its signal is an input of a call of any()
\* whose output another input aborted, and the signal of a lifecycle binding
C10_Witness ==
    /\ Len(neverReturned) = 2
    /\ \E c \in 1..Len(anyCalls) :
          neverSignal \in InputsOf(anyCalls[c]) /\ aborted[anyCalls[c].out]
    /\ \E b \in 1..Len(bindings) : bindings[b].signal = neverSignal

\* C11: for combined = any([timeout(1000), userSignal]): when the caller aborts
\* userSignal with reason R 10 ms after the timer was set, combined becomes
\* aborted with R in that step, at that instant, while the timeout signal is not
\* aborted; when the timer fires later, at 1000 ms or after, the timeout signal
\* becomes aborted with its TimeoutError and the reason of combined stays R.
C11_TimeoutRace ==
    [][\A c \in 1..Len(anyCalls), k \in 1..Len(timers) :
          LET sa == anyCalls[c].signalArray
              combined == anyCalls[c].out
          IN (/\ Len(sa) = 2
              /\ sa[1] = timers[k].signal
              /\ timers[k].ms = 1000
              /\ origin[sa[2]] = "user")
                => /\ \A r \in UserReasons :
                         (/\ AbortController(sa[2], r)
                          /\ ~aborted[sa[2]]
                          /\ now = timers[k].set + 10)
                            => /\ aborted'[combined]
                               /\ reason'[combined] = r
                               /\ now' = timers[k].set + 10
                               /\ ~aborted'[sa[1]]
                   /\ (TimerFire(k) /\ aborted[combined])
                         => /\ now >= timers[k].set + 1000
                            /\ aborted'[sa[1]]
                            /\ reason'[sa[1]] = TimeoutError(TimeoutMessage(1000))
                            /\ reason'[combined] = reason[combined]
      ]_vars

\* C11 witness: the timer of 1000 ms has fired after the caller aborted userSignal:
\* the timeout signal carries its TimeoutError, combined the caller's reason
C11_Witness ==
    \E c \in 1..Len(anyCalls), k \in 1..Len(timers) :
        LET sa == anyCalls[c].signalArray
            combined == anyCalls[c].out
        IN /\ Len(sa) = 2
           /\ sa[1] = timers[k].signal
           /\ timers[k].ms = 1000
           /\ timers[k].set = 0
           /\ timers[k].fired
           /\ now = 1000
           /\ origin[sa[2]] = "user"
           /\ ~anyCalls[c].short
           /\ reason[sa[1]] = TimeoutError(TimeoutMessage(1000))
           /\ aborted[combined]
           /\ reason[combined] \in UserReasons
           /\ reason[combined] = reason[sa[2]]

C13_ShortCircuitNoListener ==
    [][\A c \in (Len(anyCalls) + 1)..Len(anyCalls') :
          LET ins == InputsOf(anyCalls'[c])
          IN (\E i \in ins : aborted[i]) => \A i \in ins : listeners'[i] = listeners[i]
      ]_vars

\* C14: when two or more inputs of a call of any() are already aborted, with
\* different reasons, the output is aborted at return with the reason of the
\* aborted input that comes first in the sequence, in whatever order they were
\* aborted.
C14_FirstInOrderWins ==
    [][\A c \in (Len(anyCalls) + 1)..Len(anyCalls') :
          LET sa == anyCalls'[c].signalArray
              out == anyCalls'[c].out
              pre == {k \in 1..Len(sa) : aborted[sa[k]]}
          IN (\E j, k \in pre : reason[sa[j]] # reason[sa[k]])
                => \E k \in pre :
                      /\ \A j \in pre : k <= j
                      /\ aborted'[out]
                      /\ reason'[out] = reason[sa[k]]
      ]_vars

\* C14 witness: any([parent, child]) of a follow() link whose child the caller
\* aborted before the parent aborted, so with another reason: the input aborted
\* last comes first in the sequence, and the output carries its reason
C14_Witness ==
    \E c \in 1..Len(anyCalls), f \in 1..Len(follows) :
        /\ anyCalls[c].short
        /\ anyCalls[c].signalArray = <<follows[f].parent, follows[f].child>>
        /\ ~follows[f].pre
        /\ aborted[follows[f].parent]
        /\ aborted[follows[f].child]
        /\ reason[follows[f].child] # reason[follows[f].parent]
        /\ reason[anyCalls[c].out] = reason[follows[f].parent]

\* C15: for a call of any() that found no input aborted: in every state in which
\* its output is aborted, no input holds the listener of the call.
C15_CleanupAfterAbort ==
    \A c \in 1..Len(anyCalls) :
        (~anyCalls[c].short /\ aborted[anyCalls[c].out])
           => \A i \in InputsOf(anyCalls[c]) :
                 ~HasListener(listeners[i], OnAbortOfAny(c))

\* C15 witness: the output of a call with two inputs is aborted by one input and the
\* input that is not aborted holds no listener
C15_Witness ==
    \E c \in 1..Len(anyCalls) :
        /\ ~anyCalls[c].short
        /\ aborted[anyCalls[c].out]
        /\ anyCalls[c].onAbortRuns = 1
        /\ \E i, j \in InputsOf(anyCalls[c]) :
              /\ aborted[i]
              /\ ~aborted[j]
              /\ listeners[j] = <<>>

\* C16: for each call of any(), onAbort and cleanup run at most once over the whole
\* execution, and exactly once when an input abort has aborted the output: the
\* listener on a non-winning input is removed before it can fire, also when a
\* listener on the output aborts another input during the dispatch of the
\* output's abort.
C16_OnAbortRunsOnce ==
    \A c \in 1..Len(anyCalls) :
        /\ anyCalls[c].onAbortRuns <= 1
        /\ anyCalls[c].cleanupRuns <= 1
        /\ (~anyCalls[c].short /\ aborted[anyCalls[c].out])
              => anyCalls[c].onAbortRuns = 1 /\ anyCalls[c].cleanupRuns = 1

\* C17: a call of manageLifecycle() with a signal that is already aborted leaves the
\* listeners of every signal as they were, does not register the target, and calls
\* onAbort once, with the reason; no later step (a collection of the target
\* included) calls onAbort again, registers the target or adds the listener.
C17_PreAbortedNoSubscription ==
    [][\A b \in 1..Len(bindings') :
          IF b > Len(bindings)
          THEN aborted[bindings'[b].signal]
                  => /\ listeners' = listeners
                     /\ ~bindings'[b].registered
                     /\ bindings'[b].calls = <<reason[bindings'[b].signal]>>
          ELSE ~bindings[b].registered
                  => /\ bindings'[b].calls = bindings[b].calls
                     /\ ~bindings'[b].registered
                     /\ ~bindings'[b].cleanupRan
                     /\ \A s \in Signals : ~HasListener(listeners'[s], EventListenerOf(b))
      ]_vars

\* C17 witness: a binding made on an aborted signal, whose target was collected
\* later: onAbort has been called once and nothing is registered
C17_Witness ==
    \E b \in 1..Len(bindings) :
        /\ ~bindings[b].registered
        /\ bindings[b].targetCollected
        /\ ~bindings[b].cleanupRan
        /\ bindings[b].calls = <<reason[bindings[b].signal]>>
        /\ aborted[bindings[b].signal]

\* C18: the one-shot listener of follow() is on the parent exactly while the parent
\* is not aborted, for a call that found the parent not aborted, and is never
\* there for a call that found it aborted; the caller's abort of the child does
\* not remove it.
C18_ParentLinkStays ==
    /\ [](\A f \in 1..Len(follows) :
            HasListener(listeners[follows[f].parent], OnAbortOfFollow(f))
               <=> (~follows[f].pre /\ ~aborted[follows[f].parent]))
    /\ [][\A f \in 1..Len(follows), r \in UserReasons :
            (/\ AbortController(follows[f].child, r)
             /\ HasListener(listeners[follows[f].parent], OnAbortOfFollow(f))
             /\ ~aborted'[follows[f].parent])
               => HasListener(listeners'[follows[f].parent], OnAbortOfFollow(f))
        ]_vars

\* C18 witness: the caller has aborted the child, the parent is not aborted and
\* still holds the listener of the link
C18_Witness ==
    \E f \in 1..Len(follows) :
        /\ aborted[follows[f].child]
        /\ reason[follows[f].child] \in UserReasons
        /\ ~aborted[follows[f].parent]
        /\ HasListener(listeners[follows[f].parent], OnAbortOfFollow(f))

\* signal s goes from not aborted to aborted in this step
BecomesAborted(s) == ~aborted[s] /\ aborted'[s]

\* C19: the subscriptions that separate calls made on the same signal are
\* independent. While the trigger of a call has not happened, its own listener is
\* still on its inputs, whatever cleanup other calls of any() have run; and in the
\* step in which a signal aborts, every call subscribed to it acts: the output of
\* each call of any() with that input becomes aborted with the reason, the child of
\* each follow() of it too, and the onAbort of each binding on it is called with it.
C19_IndependentSubscriptions ==
    /\ [](/\ \A c \in 1..Len(anyCalls) :
               (~anyCalls[c].short /\ ~aborted[anyCalls[c].out])
                  => \A i \in InputsOf(anyCalls[c]) :
                        HasListener(listeners[i], OnAbortOfAny(c))
          /\ \A f \in 1..Len(follows) :
               (~follows[f].pre /\ ~aborted[follows[f].parent])
                  => HasListener(listeners[follows[f].parent], OnAbortOfFollow(f))
          /\ \A b \in 1..Len(bindings) :
               (/\ bindings[b].registered
                /\ ~bindings[b].cleanupRan
                /\ ~aborted[bindings[b].signal])
                  => HasListener(listeners[bindings[b].signal], EventListenerOf(b)))
    /\ [][\A s \in 1..nsig :
            BecomesAborted(s)
               => /\ \A c \in 1..Len(anyCalls) :
                        (/\ s \in InputsOf(anyCalls[c])
                         /\ ~anyCalls[c].short
                         /\ ~aborted[anyCalls[c].out])
                           => /\ aborted'[anyCalls[c].out]
                              /\ reason'[anyCalls[c].out] = reason'[s]
                  /\ \A f \in 1..Len(follows) :
                        (/\ follows[f].parent = s
                         /\ ~follows[f].pre
                         /\ ~aborted[follows[f].child])
                           => /\ aborted'[follows[f].child]
                              /\ reason'[follows[f].child] = reason'[s]
                  /\ \A b \in 1..Len(bindings) :
                        (/\ bindings[b].signal = s
                         /\ bindings[b].registered
                         /\ ~bindings[b].cleanupRan)
                           => bindings'[b].calls = <<reason'[s]>>
        ]_vars

\* C19 witness: two calls of any() and a binding share one input, which has
\* aborted: after the cleanup of the first call both outputs are aborted with the
\* reason of the input and the onAbort of the binding was called with it
C19_Witness ==
    \E s \in 1..nsig, b \in 1..Len(bindings) :
        /\ Len(anyCalls) = 2
        /\ \A c \in 1..2 :
              /\ s \in InputsOf(anyCalls[c])
              /\ ~anyCalls[c].short
              /\ anyCalls[c].cleanupRuns = 1
              /\ aborted[anyCalls[c].out]
              /\ reason[anyCalls[c].out] = reason[s]
        /\ bindings[b].signal = s
        /\ bindings[b].registered
        /\ bindings[b].calls = <<reason[s]>>
        /\ aborted[s]

\* C20: fromEvent() registers exactly one listener, with once = true, for the given
\* event name on the given target and nothing else; on a target that does not
\* honour once, the listener stays registered and is called for every dispatch of
\* the name: the first aborts the signal with the dispatched event object, every
\* later one leaves aborted and reason unchanged.
C20_OnceNotRequired ==
    [][/\ \A t \in Targets, n \in EventNames :
            FromEvent(t, n)
               => /\ targetListeners'[t][n] =
                        Append(targetListeners[t][n], [signal |-> nsig', once |-> TRUE])
                  /\ \A u \in Targets, m \in EventNames :
                        (u # t \/ m # n) => targetListeners'[u][m] = targetListeners[u][m]
       /\ \A e \in 1..Len(fromEvents) :
            LET ev == fromEvents[e]
                s == ev.signal
            IN (~HonoursOnce(ev.target) /\ Dispatch(ev.target, ev.eventName))
                  => /\ fromEvents'[e].delivered = ev.delivered + 1
                     /\ targetListeners'[ev.target] = targetListeners[ev.target]
                     /\ aborted'[s]
                     /\ IF aborted[s]
                        THEN reason'[s] = reason[s]
                        ELSE reason'[s] = [type |-> ev.eventName, id |-> nevents']
      ]_vars

\* C20 witness: on the mock target the listener was called for two dispatches and
\* is still registered; the reason is the event object of the first dispatch
C20_Witness ==
    \E e \in 1..Len(fromEvents) :
        LET ev == fromEvents[e]
        IN /\ ev.target = "mock"
           /\ ev.delivered = 2
           /\ nevents = 2
           /\ targetListeners["mock"][ev.eventName] = <<[signal |-> ev.signal, once |-> TRUE]>>
           /\ aborted[ev.signal]
           /\ reason[ev.signal] = [type |-> ev.eventName, id |-> 1]

====
